---------------------------- MODULE Spec2Model ----------------------------
(***************************************************************************)
(* Max-pooling and its gradient, src/bits/pooling.cpp: the sequential      *)
(* operators maxPooling_cpu / maxPoolingBackward_cpu and the data-parallel *)
(* operators maxPooling_gpu / maxPoolingBackward_gpu with their kernels.   *)
(*                                                                         *)
(* Scalars are integers.  The kernels' seed -FLT_MAX is NegFltMax, and the *)
(* element type also has values below it (-inf for float, and most of the  *)
(* negative range for double): Vals holds one of them, the seed itself and *)
(* one value above the seed.                                               *)
(***************************************************************************)
EXTENDS Integers, Sequences, FiniteSets

\* ------------------------------------------------------------- bounds
\* width * height * depth of the feature volume is at most MaxCells (2 x 3
\* with poolSize 2 and poolStride 1 is the smallest valid plane whose
\* windows overlap)
MaxCells == 6
\* a kernel launch has at most MaxUnits true work units (pooled cells)
MaxUnits == 2
\* poolStride ranges over 1..MaxStride
MaxStride == 2
\* dzdy[i] = MaxGradBase^i: every subset of the output cells has a sum
\* of its own
MaxGradBase == 2
\* the initial dzdx holds 0 or MaxFill in every cell
MaxFill == 1

\* memory analysis: width, height and poolSize range over 1..MemDim,
\* poolStride over 1..MemStride, depth over 1..MemDepth, and a valid
\* geometry has at most MemUnits pooled cells
MemDim == 4
MemStride == 3
MemDepth == 2
MemUnits == 4

\* -FLT_MAX, the seed of the kernels' running maximum
NegFltMax == -1

\* threads per block of a kernel launch (scaled down)
CAFFE_CUDA_NUM_THREADS == 2

\* the scalars: one value below the seed, the seed, one value above it
Vals == (NegFltMax - 1)..(NegFltMax + 1)

max(a, b) == IF a >= b THEN a ELSE b

min(a, b) == IF a <= b THEN a ELSE b

\* -------------------------------------------- size_t and int arithmetic
\* A size_t is 8 limbs of 8 bits, least significant first.
Limb == 2 ^ 8

\* limb k of a non-negative int
IntLimb(n, k) == IF k <= 4 THEN (n \div (Limb ^ (k - 1))) % Limb ELSE 0

\* conversion of an int to size_t (a negative int is sign-extended)
U64(n) ==
  [k \in 1..8 |->
     IF n >= 0 THEN IntLimb(n, k)
     ELSE IF k <= 3 THEN IntLimb((n + 2147483647) + 1, k)
     ELSE IF k = 4 THEN IntLimb((n + 2147483647) + 1, k) + 128
     ELSE 255]

RECURSIVE SubBorrow(_, _, _, _)
SubBorrow(a, b, k, borrow) ==
  IF k > 8 THEN <<>>
  ELSE LET d == a[k] - b[k] - borrow
       IN  <<d % Limb>> \o SubBorrow(a, b, k + 1, IF d < 0 THEN 1 ELSE 0)

\* a - b modulo 2^64
U64Sub(a, b) == SubBorrow(a, b, 1, 0)

RECURSIVE AddCarry(_, _, _, _)
AddCarry(a, b, k, carry) ==
  IF k > 8 THEN <<>>
  ELSE LET s == a[k] + b[k] + carry
       IN  <<s % Limb>> \o AddCarry(a, b, k + 1, s \div Limb)

\* a + b modulo 2^64
U64Add(a, b) == AddCarry(a, b, 1, 0)

RECURSIVE DivStep(_, _, _, _)
DivStep(a, d, k, rem) ==
  IF k < 1 THEN <<>>
  ELSE LET cur == rem * Limb + a[k]
       IN  DivStep(a, d, k - 1, cur % d) \o <<cur \div d>>

\* a / d for a divisor 1 <= d < 2^16 (unsigned division)
U64Div(a, d) == DivStep(a, d, 8, 0)

RECURSIVE MulStep(_, _, _, _)
MulStep(a, m, k, carry) ==
  IF k > 8 THEN <<>>
  ELSE LET p == a[k] * m + carry
       IN  <<p % Limb>> \o MulStep(a, m, k + 1, p \div Limb)

\* a * m modulo 2^64 for a factor 0 <= m < 2^16
U64Mul(a, m) == MulStep(a, m, 1, 0)

\* conversion of a size_t to a 32-bit int: the low 32 bits, two's complement
ToInt(a) ==
  LET low == a[1] + Limb * a[2] + Limb * Limb * a[3]
  IN  IF a[4] >= 128
      THEN low + (a[4] - 256) * Limb * Limb * Limb
      ELSE low + a[4] * Limb * Limb * Limb


\* C's / and % on ints truncate toward zero
IntDiv(a, b) ==
  LET q == (IF a >= 0 THEN a ELSE -a) \div (IF b >= 0 THEN b ELSE -b)
  IN  IF (a >= 0) = (b >= 0) THEN q ELSE -q

IntMod(a, b) == a - b * IntDiv(a, b)

\* ------------------------------------------------------------- state
VARIABLES
  width, height, depth,   \* the feature volume's dimensions
  poolSize, poolStride,   \* the window's side and step
  data,                   \* the feature volume, channel-major, 0-based
  dzdy,                   \* gradient of the pooled volume (read-only)
  dzdx0,                  \* what dzdx held before the backward calls
  pooledCpu, pooledGpu,   \* the pooled buffers given to the two backends
  dzdxCpu, dzdxGpu,       \* the dzdx buffers given to the two backends
  called,                 \* the operators called so far
  kargs,                  \* the arguments the launch passes to the kernel
  launched,               \* units of the launch: blocks * threads per block
  done,                   \* units that have run to their end
  reg,                    \* per unit: the value a plain += has read
  rlog, wlog,             \* per unit or iteration: the reads, the writes
  route,                  \* sequential backward: output cell -> dzdx offset
  op,                     \* memory analysis: the operator under analysis
  oob                     \* memory analysis: buffers accessed out of range

vars == <<width, height, depth, poolSize, poolStride, data, dzdy, dzdx0,
          pooledCpu, pooledGpu, dzdxCpu, dzdxGpu, called, kargs,
          launched, done, reg, rlog, wlog, route, op, oob>>

inputs == <<width, height, depth, poolSize, poolStride, data, dzdy, dzdx0>>

\* an access to cell `at` of one of the caller's four buffers
Access(buf, at) == [buf |-> buf, at |-> at]

\* the model follows the first LoopCap values of a loop counter and the
\* first LoopCap units of a launch (never fewer than the loop or the launch
\* has in a valid geometry of the model)
LoopCap == max(MaxUnits, MemUnits) + CAFFE_CUDA_NUM_THREADS

\* ----------------------------------------------------------- geometry
\* the pooled dimension computed as size / poolStride + 1
PooledDim_nosub(size, psize, stride) ==
  ToInt(U64Add(U64Div(U64(size), stride), U64(1)))

\* int pooledWidth = (width - poolSize)/poolStride + 1 : the subtraction,
\* the division and the addition are size_t, the result is cut to an int
PooledDim(size, psize, stride) ==
  ToInt(U64Add(U64Div(U64Sub(U64(size), U64(psize)), stride), U64(1)))

\* ph * poolStride, and min(hstart + poolSize, height); no product or sum
\* of the model leaves the int range here
WinStart(p, stride) == p * stride

WinEnd(start, psize, size) == min(start + psize, size)

\* the window's data offsets inside its plane, in the order of the scan:
\* for (h = hstart; h < hend; ++h) for (w = wstart; w < wend; ++w)
WindowScan(ph, pw) ==
  LET hstart == WinStart(ph, poolStride)
      wstart == WinStart(pw, poolStride)
      hend == WinEnd(hstart, poolSize, height)
      wend == WinEnd(wstart, poolSize, width)
      rows == hend - hstart
      cols == wend - wstart
  IN  IF rows <= 0 \/ cols <= 0 THEN <<>>
      ELSE [k \in 1..(rows * cols) |->
              (hstart + ((k - 1) \div cols)) * width + wstart + ((k - 1) % cols)]

\* the iterations of the sequential operators' three outer loops, in order
Cells(pW, pH) ==
  LET nw == min(pW, LoopCap)
      nh == min(pH, LoopCap)
  IN  IF nw <= 0 \/ nh <= 0 THEN <<>>
      ELSE [k \in 1..(depth * nh * nw) |->
              [c |-> (k - 1) \div (nh * nw),
               ph |-> ((k - 1) % (nh * nw)) \div nw,
               pw |-> (k - 1) % nw]]

\* int count = pooledWidth * pooledHeight * depth
Count(pW, pH) == ToInt(U64Mul(U64(pW * pH), depth))

\* CAFFE_GET_BLOCKS(count) blocks of CAFFE_CUDA_NUM_THREADS threads
CAFFE_GET_BLOCKS(N) ==
  IntDiv(N + CAFFE_CUDA_NUM_THREADS - 1, CAFFE_CUDA_NUM_THREADS)

\* ------------------------------------------------ maxPooling (CPU)
RECURSIVE RunMax(_, _, _)
RunMax(acc, scan, plane) ==
  IF scan = <<>> THEN acc
  ELSE RunMax(max(acc, data[plane + Head(scan)]), Tail(scan), plane)

RECURSIVE PoolLoop(_, _, _, _)
PoolLoop(pooled, cells, pW, pH) ==
  IF cells = <<>> THEN pooled
  ELSE LET it == Head(cells)
           out == it.c * (pW * pH) + it.ph * pW + it.pw
           plane == it.c * (width * height)
       IN  PoolLoop([pooled EXCEPT ![out] =
                       RunMax(pooled[out], WindowScan(it.ph, it.pw), plane)],
                    Tail(cells), pW, pH)

maxPooling_cpu ==
  /\ "maxPooling_cpu" \notin called
  /\ called' = called \cup {"maxPooling_cpu"}
  /\ LET pooledWidth == PooledDim(width, poolSize, poolStride)
         pooledHeight == PooledDim(height, poolSize, poolStride)
     IN  pooledCpu' = PoolLoop(pooledCpu, Cells(pooledWidth, pooledHeight),
                               pooledWidth, pooledHeight)
  /\ UNCHANGED <<inputs, pooledGpu, dzdxCpu, dzdxGpu, kargs, launched,
                 done, reg, rlog, wlog, route, op, oob>>

\* ------------------------------------------------ maxPooling (GPU)
\* a launch <<<CAFFE_GET_BLOCKS(count), CAFFE_CUDA_NUM_THREADS>>> (count,
\* ..., 1, depth, height, width, pooledHeight, pooledWidth, poolSize,
\* poolStride, ...): one unit per thread of every block, none of which has
\* run or touched memory
Launch(count, pW, pH) ==
  LET units == CAFFE_GET_BLOCKS(count) * CAFFE_CUDA_NUM_THREADS
  IN  /\ kargs' = [nthreads |-> count, num |-> 1, channels |-> depth,
                   height |-> height, width |-> width,
                   pooled_height |-> pH, pooled_width |-> pW,
                   ksize |-> poolSize, stride |-> poolStride]
      /\ launched' = units
      /\ done' = {}
      /\ reg' = <<>>
      /\ rlog' = [u \in 0..(min(units, LoopCap) - 1) |-> {}]
      /\ wlog' = [u \in 0..(min(units, LoopCap) - 1) |-> {}]

\* (the host calls the sequential operator first, then launches the parallel
\* one on the same inputs: the two share no buffer)
maxPooling_gpu ==
  /\ "maxPooling_cpu" \in called
  /\ "maxPooling_gpu" \notin called
  /\ called' = called \cup {"maxPooling_gpu"}
  /\ LET pooledWidth == PooledDim(width, poolSize, poolStride)
         pooledHeight == PooledDim(height, poolSize, poolStride)
     IN  Launch(Count(pooledWidth, pooledHeight), pooledWidth, pooledHeight)
  /\ UNCHANGED <<inputs, pooledCpu, pooledGpu, dzdxCpu, dzdxGpu, route,
                 op, oob>>

\* the kernels' decoding of the flat index
Decode(index) ==
  LET q1 == IntDiv(index, kargs.pooled_width)
      q2 == IntDiv(q1, kargs.pooled_height)
  IN  [pw |-> IntMod(index, kargs.pooled_width),
       ph |-> IntMod(q1, kargs.pooled_height),
       c  |-> IntMod(q2, kargs.channels),
       n  |-> IntDiv(q2, kargs.channels)]

\* the guard written as index <= nthreads
InRange_le(index) == index <= kargs.nthreads

\* the guard of both kernels: if (index < nthreads)
InRange(index) == index < kargs.nthreads

\* bottom_data += (n * channels + c) * height * width
Plane(d) == (d.n * kargs.channels + d.c) * kargs.height * kargs.width

maxPooling_gpu_kernel(index) ==
  /\ "maxPooling_gpu" \in called
  /\ index \in 0..(launched - 1)
  /\ index \notin done
  /\ done' = done \cup {index}
  /\ IF InRange(index)
     THEN LET d == Decode(index)
              plane == Plane(d)
              scan == WindowScan(d.ph, d.pw)
          IN  /\ pooledGpu' = [pooledGpu EXCEPT ![index] =
                                 RunMax(NegFltMax, scan, plane)]
              /\ rlog' = [rlog EXCEPT ![index] =
                            {Access("data", plane + scan[k]) : k \in 1..Len(scan)}]
              /\ wlog' = [wlog EXCEPT ![index] = @ \cup {Access("pooled", index)}]
     ELSE UNCHANGED <<pooledGpu, rlog, wlog>>
  /\ UNCHANGED <<inputs, pooledCpu, dzdxCpu, dzdxGpu, called, kargs,
                 launched, reg, route, op, oob>>

\* ---------------------------------------- maxPoolingBackward (CPU)
\* the scan with x >= bestValue: the last maximal element wins
RECURSIVE ArgScan_last(_, _, _, _)
ArgScan_last(bestIndex, bestValue, scan, plane) ==
  IF scan = <<>> THEN bestIndex
  ELSE LET x == data[plane + Head(scan)]
       IN  IF x >= bestValue
           THEN ArgScan_last(Head(scan), x, Tail(scan), plane)
           ELSE ArgScan_last(bestIndex, bestValue, Tail(scan), plane)

\* the scan for the arg-max: if (x > bestValue) { bestValue = x ;
\* bestIndex = index ; }
RECURSIVE ArgScan(_, _, _, _)
ArgScan(bestIndex, bestValue, scan, plane) ==
  IF scan = <<>> THEN bestIndex
  ELSE LET x == data[plane + Head(scan)]
       IN  IF x > bestValue
           THEN ArgScan(Head(scan), x, Tail(scan), plane)
           ELSE ArgScan(bestIndex, bestValue, Tail(scan), plane)

\* int bestIndex = hstart * width + wstart ; T bestValue = data[bestIndex]
BestIndex_cpu(ph, pw, plane) ==
  LET first == WinStart(ph, poolStride) * width + WinStart(pw, poolStride)
  IN  ArgScan(first, data[plane + first], WindowScan(ph, pw), plane)

\* the loops; r collects, per output cell, the dzdx offset it adds into
RECURSIVE BackLoop(_, _, _, _, _)
BackLoop(dzdx, r, cells, pW, pH) ==
  IF cells = <<>> THEN [dzdx |-> dzdx, route |-> r]
  ELSE LET it == Head(cells)
           plane == it.c * (width * height)
           top == it.c * (pW * pH)
           bestIndex == BestIndex_cpu(it.ph, it.pw, plane)
       IN  BackLoop([dzdx EXCEPT ![plane + bestIndex] =
                       @ + dzdy[top + it.ph * pW + it.pw]],
                    Append(r, plane + bestIndex), Tail(cells), pW, pH)

maxPoolingBackward_cpu ==
  /\ "maxPoolingBackward_cpu" \notin called
  /\ called' = called \cup {"maxPoolingBackward_cpu"}
  /\ LET pooledWidth == PooledDim(width, poolSize, poolStride)
         pooledHeight == PooledDim(height, poolSize, poolStride)
         res == BackLoop(dzdxCpu, <<>>, Cells(pooledWidth, pooledHeight),
                         pooledWidth, pooledHeight)
     IN  /\ dzdxCpu' = res.dzdx
         /\ route' = res.route
  /\ UNCHANGED <<inputs, pooledCpu, pooledGpu, dzdxGpu, kargs, launched,
                 done, reg, rlog, wlog, op, oob>>

\* ---------------------------------------- maxPoolingBackward (GPU)
\* (the host calls the sequential operator first, then launches the parallel
\* one on the same inputs: the two share no buffer)
maxPoolingBackward_gpu ==
  /\ "maxPoolingBackward_cpu" \in called
  /\ "maxPoolingBackward_gpu" \notin called
  /\ called' = called \cup {"maxPoolingBackward_gpu"}
  /\ LET pooledWidth == PooledDim(width, poolSize, poolStride)
         pooledHeight == PooledDim(height, poolSize, poolStride)
     IN  Launch(Count(pooledWidth, pooledHeight), pooledWidth, pooledHeight)
  /\ UNCHANGED <<inputs, pooledCpu, pooledGpu, dzdxCpu, dzdxGpu, route,
                 op, oob>>

\* Dtype bestValue = -FLT_MAX; int bestIndex = 0 ; and the scan
BestIndex_gpu(d) == ArgScan(0, NegFltMax, WindowScan(d.ph, d.pw), Plane(d))

\* a store in place of the add: bottom_diff[bestIndex] = top_diff[index]
atomicAdd_store(address, val) ==
  dzdxGpu' = [dzdxGpu EXCEPT ![address] = val]

\* atomicAdd(address, val): one indivisible read-modify-write
atomicAdd(address, val) ==
  dzdxGpu' = [dzdxGpu EXCEPT ![address] = @ + val]

\* the accumulation as the plain bottom_diff[bestIndex] += top_diff[index]:
\* the unit reads the cell in one step and writes the sum in a later one
maxPoolingBackward_gpu_kernel_plain(index) ==
  /\ "maxPoolingBackward_gpu" \in called
  /\ index \in 0..(launched - 1)
  /\ index \notin done
  /\ IF ~InRange(index)
     THEN /\ done' = done \cup {index}
          /\ UNCHANGED <<dzdxGpu, reg, rlog, wlog>>
     ELSE LET d == Decode(index)
              bestIndex == BestIndex_gpu(d)
          IN  IF index \notin DOMAIN reg
              THEN /\ reg' = [u \in DOMAIN reg \cup {index} |->
                                IF u = index THEN dzdxGpu[bestIndex] ELSE reg[u]]
                   /\ UNCHANGED <<dzdxGpu, done, rlog, wlog>>
              ELSE /\ dzdxGpu' = [dzdxGpu EXCEPT ![bestIndex] =
                                    reg[index] + dzdy[index]]
                   /\ done' = done \cup {index}
                   /\ wlog' = [wlog EXCEPT ![index] = @ \cup {Access("dzdx", bestIndex)}]
                   /\ UNCHANGED <<reg, rlog>>
  /\ UNCHANGED <<inputs, pooledCpu, pooledGpu, dzdxCpu, called, kargs,
                 launched, route, op, oob>>

maxPoolingBackward_gpu_kernel(index) ==
  /\ "maxPoolingBackward_gpu" \in called
  /\ index \in 0..(launched - 1)
  /\ index \notin done
  /\ done' = done \cup {index}
  /\ IF InRange(index)
     THEN LET d == Decode(index)
              plane == Plane(d)
              scan == WindowScan(d.ph, d.pw)
              bestIndex == BestIndex_gpu(d)
          IN  /\ atomicAdd(bestIndex, dzdy[index])
              /\ rlog' = [rlog EXCEPT ![index] =
                            {Access("data", plane + scan[k]) : k \in 1..Len(scan)}
                              \cup {Access("dzdy", index), Access("dzdx", bestIndex)}]
              /\ wlog' = [wlog EXCEPT ![index] = @ \cup {Access("dzdx", bestIndex)}]
     ELSE UNCHANGED <<dzdxGpu, rlog, wlog>>
  /\ UNCHANGED <<inputs, pooledCpu, pooledGpu, dzdxCpu, called, kargs,
                 launched, reg, route, op, oob>>

\* ------------------------------------------- the caller's invariants
\* width >= poolSize, height >= poolSize, poolSize >= 1, poolStride >= 1
ValidGeometry ==
  /\ poolSize >= 1
  /\ poolStride >= 1
  /\ width >= poolSize
  /\ height >= poolSize

\* the geometries of the value-level specifications: valid, at most
\* MaxCells cells, at most MaxUnits pooled cells
Geometries ==
  {g \in [w : 1..MaxCells, h : 1..MaxCells, d : 1..MaxCells,
          p : 1..MaxCells, s : 1..MaxStride] :
     /\ g.w * g.h * g.d <= MaxCells
     /\ g.p <= g.w
     /\ g.p <= g.h
     /\ PooledDim(g.w, g.p, g.s) * PooledDim(g.h, g.p, g.s) * g.d <= MaxUnits}

\* the caller's buffers: the feature volume and dzdx have width * height *
\* depth cells, the pooled volume and dzdy pooledWidth * pooledHeight * depth
Volume(g) == 0..(g.w * g.h * g.d - 1)

Pooled(g) == 0..(PooledDim(g.w, g.p, g.s) * PooledDim(g.h, g.p, g.s) * g.d - 1)

RECURSIVE Pow(_, _)
Pow(b, e) == IF e = 0 THEN 1 ELSE b * Pow(b, e - 1)

\* nothing has been called or launched
Idle ==
  /\ called = {}
  /\ kargs = <<>>
  /\ launched = 0
  /\ done = {}
  /\ reg = <<>>
  /\ rlog = <<>>
  /\ wlog = <<>>
  /\ route = <<>>
  /\ op = "none"
  /\ oob = {}

Geometry(g) ==
  /\ width = g.w
  /\ height = g.h
  /\ depth = g.d
  /\ poolSize = g.p
  /\ poolStride = g.s

\* forward pooling: any feature volume; the pooled buffers hold any one
\* value before the calls
InitFwd ==
  \E g \in Geometries :
    /\ Geometry(g)
    /\ data \in [Volume(g) -> Vals]
    /\ \E v \in Vals : /\ pooledCpu = [i \in Pooled(g) |-> v]
                       /\ pooledGpu = [i \in Pooled(g) |-> v]
    /\ dzdy = [i \in Pooled(g) |-> 0]
    /\ dzdx0 = [i \in Volume(g) |-> 0]
    /\ dzdxCpu = dzdx0
    /\ dzdxGpu = dzdx0
    /\ Idle

NextFwd ==
  \/ maxPooling_cpu
  \/ maxPooling_gpu
  \/ \E index \in 0..(min(launched, LoopCap) - 1) : maxPooling_gpu_kernel(index)

SpecFwd == InitFwd /\ [][NextFwd]_vars

\* backward pooling: any feature volume, dzdy[i] = MaxGradBase^i, the two
\* dzdx buffers hold the same one value in every cell before the calls
InitBwd ==
  \E g \in Geometries :
    /\ Geometry(g)
    /\ data \in [Volume(g) -> Vals]
    /\ dzdy = [i \in Pooled(g) |-> Pow(MaxGradBase, i)]
    /\ \E v \in {0, MaxFill} : dzdx0 = [i \in Volume(g) |-> v]
    /\ dzdxCpu = dzdx0
    /\ dzdxGpu = dzdx0
    /\ pooledCpu = [i \in Pooled(g) |-> NegFltMax]
    /\ pooledGpu = [i \in Pooled(g) |-> NegFltMax]
    /\ Idle

NextBwd ==
  \/ maxPoolingBackward_cpu
  \/ maxPoolingBackward_gpu
  \/ \E index \in 0..(min(launched, LoopCap) - 1) :
       maxPoolingBackward_gpu_kernel(index)

SpecBwd == InitBwd /\ [][NextBwd]_vars

\* ---------------------------------------------------- memory analysis
\* The operators once more, for any geometry, as the accesses they make: a
\* unit's or an iteration's log holds every cell it reads and every cell it
\* writes for some feature volume (the arg-max can be any element of the
\* window, or the initial bestIndex).  An offset beyond the int range is
\* recorded as 2^31 - 1.
MaxInt == 2147483647

SatMul(a, b) ==
  IF a <= 0 \/ b <= 0 THEN a * b
  ELSE IF a > MaxInt \div b THEN MaxInt ELSE a * b

SatAdd(a, b) == IF a > 0 /\ b > 0 /\ a > MaxInt - b THEN MaxInt ELSE a + b

\* pooledWidth * pooledHeight overflows the int it is computed in
IntMulOverflows(a, b) ==
  /\ a # 0
  /\ b # 0
  /\ (IF a < 0 THEN -a ELSE a) > MaxInt \div (IF b < 0 THEN -b ELSE b)

\* the caller's buffers: width * height * depth cells of data and of dzdx,
\* pooledWidth * pooledHeight * depth cells of pooled and of dzdy (none when
\* a pooled dimension is not positive)
Capacity(buf) ==
  LET pW == PooledDim(width, poolSize, poolStride)
      pH == PooledDim(height, poolSize, poolStride)
  IN  IF buf \in {"data", "dzdx"} THEN width * height * depth
      ELSE IF pW <= 0 \/ pH <= 0 THEN 0
      ELSE SatMul(SatMul(pW, pH), depth)

\* the buffers that the accesses of `log` leave
Outside(log) ==
  LET all == UNION {log[k] : k \in DOMAIN log}
      bufs == {a.buf : a \in all}
  IN  {b \in bufs : \E a \in all : a.buf = b /\ (a.at < 0 \/ a.at >= Capacity(b))}

\* the elements of a scan, as accesses to buf from offset base on
ScanAccesses(buf, base, scan) ==
  {Access(buf, SatAdd(base, scan[k])) : k \in 1..Len(scan)}

\* pooled[ph * pooledWidth + pw] after c steps of pooled += pooledWidth *
\* pooledHeight
PooledOffset(it, pW, pH) ==
  SatAdd(SatMul(it.c, SatMul(pW, pH)), SatAdd(SatMul(it.ph, pW), it.pw))

\* one iteration of maxPooling_cpu: the inner loops read data and pooled
\* and write pooled
PoolReads(it, pW, pH) ==
  LET scan == WindowScan(it.ph, it.pw)
  IN  ScanAccesses("data", it.c * (width * height), scan)
        \cup (IF scan = <<>> THEN {}
              ELSE {Access("pooled", PooledOffset(it, pW, pH))})

PoolWrites(it, pW, pH) ==
  IF WindowScan(it.ph, it.pw) = <<>> THEN {}
  ELSE {Access("pooled", PooledOffset(it, pW, pH))}

\* one iteration of maxPoolingBackward_cpu: data[bestIndex] before the scan,
\* the scan, dzdy[ph * pooledWidth + pw], and dzdx[bestIndex] +=
BackTargets(it) ==
  LET plane == it.c * (width * height)
      first == WinStart(it.ph, poolStride) * width + WinStart(it.pw, poolStride)
  IN  {Access("dzdx", SatAdd(plane, first))}
        \cup ScanAccesses("dzdx", plane, WindowScan(it.ph, it.pw))

BackReads(it, pW, pH) ==
  LET plane == it.c * (width * height)
      first == WinStart(it.ph, poolStride) * width + WinStart(it.pw, poolStride)
  IN  {Access("data", SatAdd(plane, first)),
       Access("dzdy", PooledOffset(it, pW, pH))}
        \cup ScanAccesses("data", plane, WindowScan(it.ph, it.pw))
        \cup BackTargets(it)

\* a sequential operator, all its iterations in one step: r and w are the
\* reads and the writes of each iteration
Sequential(name, r, w) ==
  /\ op = name
  /\ called = {}
  /\ called' = {name}
  /\ rlog' = r
  /\ wlog' = w
  /\ oob' = Outside(r) \cup Outside(w)
  /\ UNCHANGED <<inputs, pooledCpu, pooledGpu, dzdxCpu, dzdxGpu, kargs,
                 launched, done, reg, route, op>>

maxPooling_cpu_mem ==
  LET pW == PooledDim(width, poolSize, poolStride)
      pH == PooledDim(height, poolSize, poolStride)
      cells == Cells(pW, pH)
  IN  Sequential("maxPooling_cpu",
        [k \in 0..(Len(cells) - 1) |-> PoolReads(cells[k + 1], pW, pH)],
        [k \in 0..(Len(cells) - 1) |-> PoolWrites(cells[k + 1], pW, pH)])

maxPoolingBackward_cpu_mem ==
  LET pW == PooledDim(width, poolSize, poolStride)
      pH == PooledDim(height, poolSize, poolStride)
      cells == Cells(pW, pH)
  IN  Sequential("maxPoolingBackward_cpu",
        [k \in 0..(Len(cells) - 1) |-> BackReads(cells[k + 1], pW, pH)],
        [k \in 0..(Len(cells) - 1) |-> BackTargets(cells[k + 1])])

\* a launch; when pooledWidth * pooledHeight overflows, count is any int
\* (the model takes -1..LoopCap)
Launch_mem(name) ==
  /\ op = name
  /\ called = {}
  /\ called' = {name}
  /\ LET pW == PooledDim(width, poolSize, poolStride)
         pH == PooledDim(height, poolSize, poolStride)
     IN  IF IntMulOverflows(pW, pH)
         THEN \E count \in (-1)..LoopCap : Launch(count, pW, pH)
         ELSE Launch(Count(pW, pH), pW, pH)
  /\ UNCHANGED <<inputs, pooledCpu, pooledGpu, dzdxCpu, dzdxGpu, route,
                 op, oob>>

maxPooling_gpu_mem == Launch_mem("maxPooling_gpu")

maxPoolingBackward_gpu_mem == Launch_mem("maxPoolingBackward_gpu")

\* one unit of a kernel: r and w are the cells it reads and writes
Unit(name, index, r, w) ==
  /\ called = {name}
  /\ index \in 0..(launched - 1)
  /\ index \notin done
  /\ done' = done \cup {index}
  /\ IF InRange(index)
     THEN /\ rlog' = [rlog EXCEPT ![index] = r]
          /\ wlog' = [wlog EXCEPT ![index] = w]
          /\ oob' = oob \cup Outside([k \in {index} |-> r \cup w])
     ELSE UNCHANGED <<rlog, wlog, oob>>
  /\ UNCHANGED <<inputs, pooledCpu, pooledGpu, dzdxCpu, dzdxGpu, called,
                 kargs, launched, reg, route, op>>

\* maxPooling_gpu_kernel: the scan of bottom_data, top_data[index] = maxval
KernelReads(index) ==
  LET d == Decode(index)
  IN  ScanAccesses("data", Plane(d), WindowScan(d.ph, d.pw))

KernelWrites(index) == {Access("pooled", index)}

\* maxPoolingBackward_gpu_kernel: the scan, then atomicAdd(bottom_diff +
\* bestIndex, top_diff[index]) with bestIndex 0 or an element of the scan
BackKernelTargets(index) ==
  LET d == Decode(index)
  IN  {Access("dzdx", 0)} \cup ScanAccesses("dzdx", 0, WindowScan(d.ph, d.pw))

BackKernelReads(index) ==
  LET d == Decode(index)
  IN  ScanAccesses("data", Plane(d), WindowScan(d.ph, d.pw))
        \cup {Access("dzdy", index)} \cup BackKernelTargets(index)

maxPooling_gpu_kernel_mem(index) ==
  Unit("maxPooling_gpu", index, KernelReads(index), KernelWrites(index))

maxPoolingBackward_gpu_kernel_mem(index) ==
  Unit("maxPoolingBackward_gpu", index,
       BackKernelReads(index), BackKernelTargets(index))

\* any geometry, valid (with at most MemUnits pooled cells) or undersized,
\* and one of the four operators
InitMem ==
  \E g \in [w : 1..MemDim, h : 1..MemDim, d : 1..MemDepth,
            p : 1..MemDim, s : 1..MemStride] :
    /\ (g.p <= g.w /\ g.p <= g.h) =>
         PooledDim(g.w, g.p, g.s) * PooledDim(g.h, g.p, g.s) * g.d <= MemUnits
    /\ Geometry(g)
    /\ data = <<>>
    /\ dzdy = <<>>
    /\ dzdx0 = <<>>
    /\ pooledCpu = <<>>
    /\ pooledGpu = <<>>
    /\ dzdxCpu = <<>>
    /\ dzdxGpu = <<>>
    /\ called = {}
    /\ kargs = <<>>
    /\ launched = 0
    /\ done = {}
    /\ reg = <<>>
    /\ rlog = <<>>
    /\ wlog = <<>>
    /\ route = <<>>
    /\ oob = {}
    /\ op \in {"maxPooling_cpu", "maxPooling_gpu",
               "maxPoolingBackward_cpu", "maxPoolingBackward_gpu"}

NextMem ==
  \/ maxPooling_cpu_mem
  \/ maxPoolingBackward_cpu_mem
  \/ maxPooling_gpu_mem
  \/ maxPoolingBackward_gpu_mem
  \/ \E index \in 0..(min(launched, LoopCap) - 1) :
       maxPooling_gpu_kernel_mem(index)
  \/ \E index \in 0..(min(launched, LoopCap) - 1) :
       maxPoolingBackward_gpu_kernel_mem(index)

SpecMem == InitMem /\ [][NextMem]_vars

\* ------------------------------------------------------- properties
\* the pooled dimensions of a valid geometry (the shape law)
pooledWidth == (width - poolSize) \div poolStride + 1

pooledHeight == (height - poolSize) \div poolStride + 1

\* the window of output cell (ph, pw) as a set of (h, w) offsets h*width+w
Window(ph, pw) ==
  {h * width + w :
     h \in (ph * poolStride)..(min(ph * poolStride + poolSize, height) - 1),
     w \in (pw * poolStride)..(min(pw * poolStride + poolSize, width) - 1)}

SetMax(S) == CHOOSE m \in S : \A x \in S : x <= m

\* output cell i of the pooled volume as (c, ph, pw)
CellOf(i) ==
  LET pW == pooledWidth
      pH == pooledHeight
  IN  [c |-> i \div (pW * pH), ph |-> (i % (pW * pH)) \div pW, pw |-> i % pW]

\* the maximum of data over the window of output cell i
WindowMax(i) ==
  LET cell == CellOf(i)
  IN  SetMax({data[cell.c * width * height + o] : o \in Window(cell.ph, cell.pw)})

RECURSIVE SumOver(_, _)
SumOver(f, S) ==
  IF S = {} THEN 0
  ELSE LET x == CHOOSE y \in S : TRUE
       IN  f[x] + SumOver(f, S \ {x})

\* every unit of the launch has run
Drained(kernel) == kernel \in called /\ done = 0..(launched - 1)

\* C1: after maxPooling_cpu every pooled cell holds the maximum of data over
\* its window, whatever the pooled buffer held before the call.
C1_PooledIsWindowMax ==
  "maxPooling_cpu" \in called =>
    \A i \in DOMAIN pooledCpu : pooledCpu[i] = WindowMax(i)

\* C3: once maxPooling_cpu has returned and every unit of maxPooling_gpu has
\* run, the two pooled volumes are equal cell by cell.
C3_ForwardBackendsAgree ==
  ("maxPooling_cpu" \in called /\ Drained("maxPooling_gpu")) =>
    pooledCpu = pooledGpu

\* C2: once every unit of maxPoolingBackward_gpu has run, dzdx holds in every
\* cell what maxPoolingBackward_cpu produces from the same inputs and the
\* same initial dzdx.
C2_BackwardBackendsAgree ==
  ("maxPoolingBackward_cpu" \in called /\ Drained("maxPoolingBackward_gpu")) =>
    dzdxGpu = dzdxCpu

\* C4: from a zero dzdx, after either backward operator the sum of dzdx over
\* the feature volume is the sum of dzdy over the pooled volume.
C4_GradientMassConserved ==
  (\A i \in DOMAIN dzdx0 : dzdx0[i] = 0) =>
    /\ "maxPoolingBackward_cpu" \in called =>
         SumOver(dzdxCpu, DOMAIN dzdxCpu) = SumOver(dzdy, DOMAIN dzdy)
    /\ Drained("maxPoolingBackward_gpu") =>
         SumOver(dzdxGpu, DOMAIN dzdxGpu) = SumOver(dzdy, DOMAIN dzdy)

C4_Witness ==
  /\ \A i \in DOMAIN dzdx0 : dzdx0[i] = 0
  /\ "maxPoolingBackward_cpu" \in called
  /\ Drained("maxPoolingBackward_gpu")
  /\ poolStride < poolSize
  /\ kargs.nthreads >= 2
  /\ \E i \in DOMAIN dzdxGpu : dzdxGpu[i] = SumOver(dzdy, DOMAIN dzdy)

\* the units that have passed the guard and finished
Worked == {u \in done : u < kargs.nthreads}

\* C5: in every state of every interleaving, each dzdx cell holds its initial
\* value plus dzdy[u] of every finished unit u that targeted it, the target
\* being the arg-max the unit computes from the inputs alone; so the final
\* dzdx is the same for all interleavings and no contribution is lost.
C5_NoLostUpdate ==
  "maxPoolingBackward_gpu" \in called =>
    /\ \A u \in Worked : wlog[u] = {Access("dzdx", BestIndex_gpu(Decode(u)))}
    /\ \A i \in DOMAIN dzdxGpu :
         dzdxGpu[i] = dzdx0[i] + SumOver(dzdy, {u \in Worked : wlog[u] = {Access("dzdx", i)}})

C5_Witness ==
  /\ Drained("maxPoolingBackward_gpu")
  /\ poolStride < poolSize
  /\ \E i \in DOMAIN dzdx0 : dzdx0[i] # 0
  /\ \E u, v \in Worked : u # v /\ wlog[u] = wlog[v]

\* the scan of output cell (ph, pw) as a sequence of plane offsets, row-major
ScanOrder(ph, pw) ==
  LET hs == ph * poolStride
      ws == pw * poolStride
      cols == min(ws + poolSize, width) - ws
      n == Cardinality(Window(ph, pw))
  IN  [k \in 1..n |-> (hs + ((k - 1) \div cols)) * width + ws + ((k - 1) % cols)]

\* the first offset of the scan whose value is the window's maximum
FirstMax(i) ==
  LET cell == CellOf(i)
      plane == cell.c * width * height
      order == ScanOrder(cell.ph, cell.pw)
      m == WindowMax(i)
      first == CHOOSE k \in 1..Len(order) :
                 /\ data[plane + order[k]] = m
                 /\ \A j \in 1..(k - 1) : data[plane + order[j]] # m
  IN  plane + order[first]

\* C6: maxPoolingBackward_cpu adds dzdy of every output cell into the first
\* element of its window, in row-major scan order, that equals the window's
\* maximum, and into no other element.
C6_FirstMaxReceives ==
  "maxPoolingBackward_cpu" \in called =>
    LET target == [i \in DOMAIN dzdy |-> FirstMax(i)]
    IN  /\ \A i \in DOMAIN dzdy : route[i + 1] = target[i]
        /\ \A x \in DOMAIN dzdxCpu :
             dzdxCpu[x] = dzdx0[x]
                          + SumOver(dzdy, {i \in DOMAIN dzdy : target[i] = x})

\* a window with two maximal elements, the first of them not at its start
C6_Witness ==
  /\ "maxPoolingBackward_cpu" \in called
  /\ \E i \in DOMAIN dzdy :
       LET cell == CellOf(i)
           plane == cell.c * width * height
           order == ScanOrder(cell.ph, cell.pw)
           m == WindowMax(i)
       IN  /\ Cardinality({k \in 1..Len(order) : data[plane + order[k]] = m}) >= 2
           /\ FirstMax(i) # plane + order[1]

\* C10: every finished unit of the backward kernel has added into one dzdx
\* cell, which lies in the unit's own channel and inside the unit's window.
C10_TargetInOwnWindow ==
  "maxPoolingBackward_gpu" \in called =>
    \A u \in Worked :
      LET cell == CellOf(u)
      IN  \E o \in Window(cell.ph, cell.pw) :
            wlog[u] = {Access("dzdx", cell.c * height * width + o)}

\* C7: in an undersized volume (width < poolSize or height < poolSize) no
\* operator reads or writes outside the caller's data, pooled, dzdy and dzdx
\* buffers.
C7_UndersizedStaysInBounds ==
  (width < poolSize \/ height < poolSize) => oob = {}

\* the channel of iteration or unit k in a valid geometry
ChannelOf(k) == k \div (pooledWidth * pooledHeight)

\* C8: in a valid geometry the pooled dimensions are those of the shape law,
\* every window starts inside the volume, is not empty and ends inside the
\* volume, and every data cell an operator reads lies in the plane of the
\* channel of the output cell it is read for.
C8_WindowsInsideVolume ==
  ValidGeometry =>
    LET pW == PooledDim(width, poolSize, poolStride)
        pH == PooledDim(height, poolSize, poolStride)
    IN  /\ pW = pooledWidth
        /\ pH = pooledHeight
        /\ \A ph \in 0..(pH - 1), pw \in 0..(pW - 1) :
             LET hstart == WinStart(ph, poolStride)
                 wstart == WinStart(pw, poolStride)
                 hend == WinEnd(hstart, poolSize, height)
                 wend == WinEnd(wstart, poolSize, width)
             IN  /\ 0 <= hstart /\ hstart < hend /\ hend <= height
                 /\ 0 <= wstart /\ wstart < wend /\ wend <= width
        /\ \A k \in DOMAIN rlog : \A a \in rlog[k] :
             a.buf = "data" =>
               /\ a.at >= ChannelOf(k) * width * height
               /\ a.at < (ChannelOf(k) + 1) * width * height

\* an operator has run over two channels and two columns of windows that
\* leave the last column of the volume out
C8_Witness ==
  /\ ValidGeometry
  /\ depth >= 2
  /\ pooledWidth >= 2
  /\ (width - poolSize) % poolStride # 0
  /\ called # {}
  /\ \A k \in 0..(pooledWidth * pooledHeight * depth - 1) :
       k \in DOMAIN rlog /\ rlog[k] # {}

\* C9: in a valid geometry a launch has count = pooledWidth * pooledHeight *
\* depth rounded up to whole blocks; a unit below count of the forward
\* kernel writes top_data[index] and nothing else, and its index decodes to
\* n = 0 and a cell (c, ph, pw) of the pooled volume with index = (c *
\* pooledHeight + ph) * pooledWidth + pw, so no two units share a cell; a
\* unit at or above count of either kernel reads and writes nothing.
C9_OwnershipAndGuard ==
  (ValidGeometry /\ called \cap {"maxPooling_gpu", "maxPoolingBackward_gpu"} # {}) =>
    LET count == pooledWidth * pooledHeight * depth
    IN  /\ kargs.nthreads = count
        /\ launched % CAFFE_CUDA_NUM_THREADS = 0
        /\ launched >= count
        /\ launched < count + CAFFE_CUDA_NUM_THREADS
        /\ \A u \in 0..(launched - 1) :
             /\ (u \notin done \/ u >= count) => (rlog[u] = {} /\ wlog[u] = {})
             /\ (u \in done /\ u < count /\ "maxPooling_gpu" \in called) =>
                  LET d == Decode(u)
                  IN  /\ wlog[u] = {Access("pooled", u)}
                      /\ d.n = 0
                      /\ d.c \in 0..(depth - 1)
                      /\ d.ph \in 0..(pooledHeight - 1)
                      /\ d.pw \in 0..(pooledWidth - 1)
                      /\ u = (d.c * pooledHeight + d.ph) * pooledWidth + d.pw
        /\ "maxPooling_gpu" \in called =>
             \A u, v \in done :
               (u < count /\ v < count /\ u # v) =>
                 (Decode(u) # Decode(v) /\ wlog[u] \cap wlog[v] = {})

\* a forward launch with three or more true units and an idle one, all run
C9_Witness ==
  /\ ValidGeometry
  /\ Drained("maxPooling_gpu")
  /\ kargs.nthreads >= 3
  /\ launched > kargs.nthreads

=============================================================================
